---- MODULE Spec2Model ----
(***************************************************************************)
(* Model of src/lambda.js: the Lambda handler that parses an event body,  *)
(* asks the Bedrock knowledge base for test cases, writes them to a /tmp  *)
(* file, uploads the file to S3, pre-signs a URL for the key, deletes the *)
(* local file and returns the result.                                     *)
(*                                                                         *)
(* JavaScript strings are TLA+ strings (TLC evaluates Len, \o and SubSeq  *)
(* on them).  A JavaScript scalar is a record [t, s]: its type and, for a *)
(* string or a number, its text.  An object is [t |-> "object", f |-> a   *)
(* function from property names to values].                               *)
(***************************************************************************)
EXTENDS Integers, Sequences, FiniteSets, TLC

\* ------------------------------------------------------------------------
\* Bounds of the model
\* ------------------------------------------------------------------------
MaxInvocations == 2   \* invocations served by one warm container
MaxTicks == 2         \* milliseconds the clock may advance in total

\* ------------------------------------------------------------------------
\* Module constants of lambda.js
\* ------------------------------------------------------------------------
AWS_REGION == "us-west-2"
MODEL_ID == "anthropic.claude-3-5-sonnet-20241022-v2:0"
KNOWLEDGE_BASE_ID == "ZEVRTT7CCF"
S3_BUCKET_NAME == "closedaioutput"
EXPIRES_IN == 86400

\* ------------------------------------------------------------------------
\* JavaScript values
\* ------------------------------------------------------------------------
Undefined == [t |-> "undefined", s |-> ""]
Null == [t |-> "null", s |-> ""]
Str(s) == [t |-> "string", s |-> s]
Num(s) == [t |-> "number", s |-> s]
Obj(f) == [t |-> "object", f |-> f]
EmptyObject == Obj(<<>>)

\* The i-th character of s, as a one-character string.
CharAt(s, i) == SubSeq(s, i, i)

\* `${v}` in a template literal: the string conversion of the value.
JSString(v) ==
  CASE v.t = "undefined" -> "undefined"
    [] v.t = "null" -> "null"
    [] v.t = "object" -> "[object Object]"
    [] OTHER -> v.s

\* Truthy with the test "event.body !== undefined" in its place.
TruthyDefined(v) == v.t # "undefined"

\* if (v): a value is falsy when it is undefined, null, "" or 0.
Truthy(v) ==
  CASE v.t \in {"undefined", "null"} -> FALSE
    [] v.t = "string" -> v.s # ""
    [] v.t = "number" -> v.s # "0"
    [] OTHER -> TRUE

\* obj.name, also on a primitive (where the properties of the request are
\* not defined).
Get(v, name) ==
  IF v.t = "object" /\ name \in DOMAIN v.f THEN v.f[name] ELSE Undefined

\* name = dflt in a destructuring pattern: the default applies to undefined
\* only.
Default(v, dflt) == IF v.t = "undefined" THEN dflt ELSE v

\* ------------------------------------------------------------------------
\* Numbers as decimal text
\* ------------------------------------------------------------------------
Digits == "0123456789"

IsDigit(c) == \E d \in 1..10 : CharAt(Digits, d) = c

RECURSIVE NumToStr(_)
NumToStr(n) ==
  IF n < 10 THEN CharAt(Digits, n + 1)
  ELSE NumToStr(n \div 10) \o CharAt(Digits, (n % 10) + 1)

\* String(n).padStart(w, "0") as toISOString pads its fields.
RECURSIVE Pad(_, _)
Pad(n, w) ==
  IF w = 0 THEN ""
  ELSE Pad(n \div 10, w - 1) \o CharAt(Digits, (n % 10) + 1)

\* ------------------------------------------------------------------------
\* JSON.parse, on the JSON subset without white space, arrays, fractions,
\* booleans and escapes other than \" and \\.  A result is [ok, v, next, msg].
\* ------------------------------------------------------------------------
ParseOk(v, next) == [ok |-> TRUE, v |-> v, next |-> next, msg |-> ""]

\* The SyntaxError message of V8 for a parse that stops at position i
\* (1-based here, 0-based in the message).
ParseErr(s, i) ==
  [ok |-> FALSE, v |-> Undefined, next |-> i,
   msg |-> IF i > Len(s) THEN "Unexpected end of JSON input"
           ELSE "Unexpected token " \o CharAt(s, i) \o " in JSON at position "
                \o NumToStr(i - 1)]

\* The first position from i on where s stops matching lit[k..], or 0 when
\* all of lit matches.
RECURSIVE Mismatch(_, _, _, _)
Mismatch(s, i, lit, k) ==
  IF k > Len(lit) THEN 0
  ELSE IF i > Len(s) \/ CharAt(s, i) # CharAt(lit, k) THEN i
  ELSE Mismatch(s, i + 1, lit, k + 1)

\* The position after the run of digits that starts at i.
RECURSIVE DigitsEnd(_, _)
DigitsEnd(s, i) ==
  IF i <= Len(s) /\ IsDigit(CharAt(s, i)) THEN DigitsEnd(s, i + 1) ELSE i

\* The position of the closing quote from i on, or Len(s) + 1.
RECURSIVE QuoteEnd(_, _)
QuoteEnd(s, i) ==
  IF i > Len(s) \/ CharAt(s, i) = "\"" THEN i
  ELSE IF CharAt(s, i) = "\\" THEN QuoteEnd(s, i + 2)
  ELSE QuoteEnd(s, i + 1)

\* The text of a string literal's contents: \" and \\ stand for " and \.
RECURSIVE Unescape(_)
Unescape(s) ==
  IF s = "" THEN ""
  ELSE IF CharAt(s, 1) = "\\" /\ Len(s) >= 2
       THEN CharAt(s, 2) \o Unescape(SubSeq(s, 3, Len(s)))
  ELSE CharAt(s, 1) \o Unescape(Tail(s))

ParseString(s, i) ==
  IF i > Len(s) \/ CharAt(s, i) # "\"" THEN ParseErr(s, i)
  ELSE LET e == QuoteEnd(s, i + 1)
       IN IF e > Len(s) THEN ParseErr(s, Len(s) + 1)
          ELSE ParseOk(Str(Unescape(SubSeq(s, i + 1, e - 1))), e + 1)

RECURSIVE ParseValue(_, _)
RECURSIVE ParseMembers(_, _, _)

\* "name":value pairs from position i, after the properties in f.
ParseMembers(s, i, f) ==
  LET k == ParseString(s, i)
  IN IF ~k.ok THEN k
     ELSE IF k.next > Len(s) \/ CharAt(s, k.next) # ":"
          THEN ParseErr(s, k.next)
     ELSE LET v == ParseValue(s, k.next + 1)
          IN IF ~v.ok THEN v
             ELSE LET g == (k.v.s :> v.v) @@ f
                  IN IF v.next > Len(s) THEN ParseErr(s, v.next)
                     ELSE IF CharAt(s, v.next) = "}"
                          THEN ParseOk(Obj(g), v.next + 1)
                     ELSE IF CharAt(s, v.next) = ","
                          THEN ParseMembers(s, v.next + 1, g)
                     ELSE ParseErr(s, v.next)

ParseValue(s, i) ==
  IF i > Len(s) THEN ParseErr(s, i)
  ELSE LET c == CharAt(s, i)
       IN CASE c = "n" ->
                 LET m == Mismatch(s, i, "null", 1)
                 IN IF m = 0 THEN ParseOk(Null, i + 4) ELSE ParseErr(s, m)
            [] c = "\"" -> ParseString(s, i)
            [] c = "0" -> ParseOk(Num("0"), i + 1)
            [] IsDigit(c) /\ c # "0" ->
                 LET e == DigitsEnd(s, i)
                 IN ParseOk(Num(SubSeq(s, i, e - 1)), e)
            [] c = "{" ->
                 IF i + 1 <= Len(s) /\ CharAt(s, i + 1) = "}"
                 THEN ParseOk(EmptyObject, i + 2)
                 ELSE ParseMembers(s, i + 1, <<>>)
            [] OTHER -> ParseErr(s, i)

\* JSON.parse(s): one value and nothing after it.
JSONParse(s) ==
  LET r == ParseValue(s, 1)
  IN IF r.ok /\ r.next <= Len(s) THEN ParseErr(s, r.next) ELSE r

\* JSON.stringify of a string: quotes and backslashes escaped.
RECURSIVE Escape(_)
Escape(s) ==
  IF s = "" THEN ""
  ELSE LET c == CharAt(s, 1)
       IN (IF c = "\"" \/ c = "\\" THEN "\\" \o c ELSE c) \o Escape(Tail(s))

Quote(s) == "\"" \o Escape(s) \o "\""

\* JSON.stringify({error, details}) of the 400 response.
StringifyClientError(error, details) ==
  "{" \o Quote("error") \o ":" \o Quote(error) \o ","
      \o Quote("details") \o ":" \o Quote(details) \o "}"

\* JSON.stringify({error, details, timestamp}) of the 500 response.
StringifyServerError(error, details, timestamp) ==
  "{" \o Quote("error") \o ":" \o Quote(error) \o ","
      \o Quote("details") \o ":" \o Quote(details) \o ","
      \o Quote("timestamp") \o ":" \o Quote(timestamp) \o "}"

\* ------------------------------------------------------------------------
\* new Date().toISOString() for an instant in milliseconds since the epoch.
\* TLC's integers are 32 bits wide, so the instants of the model lie in
\* January 1970.
\* ------------------------------------------------------------------------
MsPerSecond == 10 * 100
MsPerMinute == 60 * MsPerSecond
MsPerHour == 60 * MsPerMinute
MsPerDay == 24 * MsPerHour

toISOString(t) ==
  LET day == (t \div MsPerDay) + 1
      r == t % MsPerDay
  IN "1970-01-" \o Pad(day, 2) \o "T" \o Pad(r \div MsPerHour, 2) \o ":"
       \o Pad((r \div MsPerMinute) % 60, 2) \o ":"
       \o Pad((r \div MsPerSecond) % 60, 2) \o "."
       \o Pad(r % MsPerSecond, 3) \o "Z"

\* s.replace(/[:.]/g, "-")
RECURSIVE ReplaceColonDot(_)
ReplaceColonDot(s) ==
  IF s = "" THEN ""
  ELSE LET c == CharAt(s, 1)
       IN (IF c = ":" \/ c = "." THEN "-" ELSE c) \o ReplaceColonDot(Tail(s))

Timestamp(t) == ReplaceColonDot(toISOString(t))

\* FileName without the timestamp.
FileNameNoTimestamp(pr_number, timestamp) ==
  "testcases-" \o JSString(pr_number) \o ".txt"

FileName(pr_number, timestamp) ==
  "testcases-" \o JSString(pr_number) \o "-" \o timestamp \o ".txt"

FilePath(fileName) == "/tmp/" \o fileName

S3Key(s3Prefix, fileName) == JSString(s3Prefix) \o "/" \o fileName

\* Whether the one-character string c occurs in s.
RECURSIVE Contains(_, _)
Contains(s, c) ==
  IF s = "" THEN FALSE
  ELSE CharAt(s, 1) = c \/ Contains(Tail(s), c)

\* ------------------------------------------------------------------------
\* Buffer contents: fs.writeFileSync(path, text, "utf8") stores the UTF-8
\* encoding of the text, fs.readFileSync(path) returns the stored bytes.
\* The texts of the model are printable ASCII, one byte per character.
\* ------------------------------------------------------------------------
\* U+0020..U+005F and U+0061..U+007E.
AsciiLow ==
  " !\"#$%&'()*+,-./0123456789:;<=>?@ABCDEFGHIJKLMNOPQRSTUVWXYZ[\\]^_"
AsciiHigh == "abcdefghijklmnopqrstuvwxyz{|}~"

CharCode(c) ==
  IF \E i \in 1..Len(AsciiLow) : CharAt(AsciiLow, i) = c
  THEN 31 + (CHOOSE i \in 1..Len(AsciiLow) : CharAt(AsciiLow, i) = c)
  ELSE 96 + (CHOOSE i \in 1..Len(AsciiHigh) : CharAt(AsciiHigh, i) = c)

RECURSIVE Utf8Encode(_)
Utf8Encode(s) ==
  IF s = "" THEN <<>>
  ELSE <<CharCode(CharAt(s, 1))>> \o Utf8Encode(Tail(s))

\* ------------------------------------------------------------------------
\* The inputs of the model
\* ------------------------------------------------------------------------
FullRequestText ==
  "{\"repository\":\"o/r\",\"pr_number\":7,\"commitSha\":\"c1\",\"repositoryUrl\":\"u\",\"branch\":\"b\",\"numberOfResults\":3}"

\* The events the handler is invoked with: no body, a null body, an empty
\* body, a body that is not JSON, the JSON text null, a full request as JSON
\* text, and a request that API Gateway did not serialise.
Events ==
  << EmptyObject,
     Obj([body |-> Null]),
     Obj([body |-> Str("")]),
     Obj([body |-> Str("{\"a\"\"}")]),
     Obj([body |-> Str("null")]),
     Obj([body |-> Str(FullRequestText)]),
     Obj([body |-> Obj([repository |-> Str("o/r"), pr_number |-> Str("a/b"),
                        diff |-> Str("+x")])]) >>

\* What the knowledge base answers: output.text and sessionId.
Answers ==
  << [output |-> [text |-> "App: x"], sessionId |-> Undefined],
     [output |-> [text |-> "Test"], sessionId |-> Str("s-1")] >>

\* The messages of the errors the SDK clients throw.
GenerateErrors == {"Rate exceeded", "Model \"m\" not found"}
UploadErrors == {"Access Denied"}
PresignErrors == {"Could not load credentials"}

\* The first instant of the model: 1970-01-01T23:59:59.998Z.
StartInstant == MsPerDay - 2

\* ------------------------------------------------------------------------
\* exports.handler and queryKnowledgeBase
\* ------------------------------------------------------------------------
VARIABLES
  pc,           \* where the invocation stands: idle, awaitGenerate,
                \* awaitUpload, awaitPresign, returned
  event,        \* the event of the invocation
  requestData,  \* handler's requestData
  frame,        \* queryKnowledgeBase's destructured parameters
  payload,      \* the RetrieveAndGenerateCommand input
  apiResponse,  \* what client.send returned
  art,          \* generatedText, timestamp, fileName, filePath, s3Key
  uploadParams, \* the PutObjectCommand input
  presign,      \* the getSignedUrl arguments
  thrown,       \* the error raised in the invocation, if any
  log,          \* the calls of the invocation, in the order issued
  response,     \* what handler returned
  files,        \* /tmp of the container: path -> bytes
  s3,           \* the object store: <<Bucket, Key>> -> object
  now,          \* the clock, in milliseconds
  invocations,  \* invocations started
  issued        \* the names computed by the invocations so far

vars == <<pc, event, requestData, frame, payload, apiResponse, art,
          uploadParams, presign, thrown, log, response, files, s3, now,
          invocations, issued>>

\* How often, and whether, the invocation has issued the call op.
Count(op) == Cardinality({i \in DOMAIN log : log[i] = op})

Issued(op) == \E i \in DOMAIN log : log[i] = op

NoResponse == [statusCode |-> 0, headers |-> <<>>, body |-> Undefined]

Error(name, message, from) ==
  [t |-> "error", name |-> name, message |-> message, from |-> from]

\* RequestData with a parse failure swallowed: the request stays empty.
RequestDataLenient(ev) ==
  LET body == Get(ev, "body")
  IN IF Truthy(body)
     THEN IF body.t = "string"
          THEN (IF JSONParse(body.s).ok THEN JSONParse(body.s)
                ELSE ParseOk(EmptyObject, 0))
          ELSE ParseOk(body, 0)
     ELSE ParseOk(EmptyObject, 0)

\* Lines 209-233: requestData, or the parse error.
RequestData(ev) ==
  LET body == Get(ev, "body")
  IN IF Truthy(body)
     THEN IF body.t = "string" THEN JSONParse(body.s) ELSE ParseOk(body, 0)
     ELSE ParseOk(EmptyObject, 0)

\* Lines 19-35: the destructuring of requestData with its defaults.
Frame(rd) ==
  [repository |-> Get(rd, "repository"),
   pr_number |-> Get(rd, "pr_number"),
   repositoryUrl |-> Get(rd, "repositoryUrl"),
   commitSha |-> Get(rd, "commitSha"),
   diff |-> Get(rd, "diff"),
   branch |-> Get(rd, "branch"),
   pr_description |-> Get(rd, "pr_description"),
   knowledgeBaseId |-> Default(Get(rd, "knowledgeBaseId"), Str(KNOWLEDGE_BASE_ID)),
   modelId |-> Default(Get(rd, "modelId"), Str(MODEL_ID)),
   numberOfResults |-> Default(Get(rd, "numberOfResults"), Num("5")),
   searchType |-> Default(Get(rd, "searchType"), Str("HYBRID")),
   maxTokens |-> Default(Get(rd, "maxTokens"), Num("1000")),
   temperature |-> Default(Get(rd, "temperature"), Num("0.7")),
   topP |-> Default(Get(rd, "topP"), Num("0.9")),
   includeMetadata |-> Default(Get(rd, "includeMetadata"),
                               [t |-> "boolean", s |-> "true"])]

\* Lines 39-94: the prompt; the fixed instructions before [PR Title] are
\* left out.
Query(fr) ==
  "[PR Title]\n" \o JSString(fr.repository)
    \o "\n\n[PR Description]\n" \o JSString(fr.pr_description)
    \o "\n\n[Git Diff]\n" \o JSString(fr.diff) \o "\n  "

\* Lines 103-129.
Payload(fr) ==
  [input |-> [text |-> Query(fr)],
   retrieveAndGenerateConfiguration |->
     [type |-> "KNOWLEDGE_BASE",
      knowledgeBaseConfiguration |->
        [knowledgeBaseId |-> fr.knowledgeBaseId,
         modelArn |-> fr.modelId,
         retrievalConfiguration |->
           [vectorSearchConfiguration |->
              [numberOfResults |-> fr.numberOfResults,
               overrideSearchType |-> fr.searchType]],
         generationConfiguration |->
           [inferenceConfig |->
              [textInferenceConfig |->
                 [maxTokens |-> fr.maxTokens,
                  temperature |-> fr.temperature,
                  topP |-> fr.topP]]]]]]

\* Lines 154-166.
UploadParams(fr, api, timestamp, s3Key, body) ==
  [Bucket |-> S3_BUCKET_NAME,
   Key |-> s3Key,
   Body |-> body,
   ContentType |-> "text/plain",
   Metadata |->
     ("knowledge-base-id" :> fr.knowledgeBaseId)
       @@ ("model-id" :> fr.modelId)
       @@ ("session-id" :> IF Truthy(api.sessionId) THEN api.sessionId
                           ELSE Str("none"))
       @@ ("search-type" :> fr.searchType)
       @@ ("timestamp" :> Str(timestamp))]

\* Lines 171-178: what is signed, and for how long.
PresignRequest(s3Key) ==
  [command |-> "PutObjectCommand",
   Bucket |-> S3_BUCKET_NAME,
   Key |-> s3Key,
   expiresIn |-> EXPIRES_IN]

\* The link getSignedUrl returns, without its credential and signature
\* parameters.
PresignedUrl(req) ==
  "https://" \o req.Bucket \o ".s3." \o AWS_REGION \o ".amazonaws.com/"
    \o req.Key \o "?X-Amz-Expires=" \o NumToStr(req.expiresIn)
    \o "&x-id=" \o SubSeq(req.command, 1, Len(req.command) - Len("Command"))

\* Lines 184-197.
Result(fr, presignedUrl) ==
  Obj([appPackage |-> Str("com.qazi9amaan.rntodoapp"),
       testName |-> Str("Test for PR " \o JSString(fr.pr_number)),
       testInstructionsUrl |-> Str(presignedUrl),
       priority |-> Str("high"),
       timeout |-> Num("180"),
       metadata |-> Obj([jiraTicketId |-> Str("PROJ-1234"),
                         commitSha |-> fr.commitSha,
                         repositoryUrl |-> fr.repositoryUrl,
                         prNumber |-> fr.pr_number,
                         branch |-> fr.branch])])

CorsHeaders ==
  ("Content-Type" :> "application/json")
    @@ ("Access-Control-Allow-Origin" :> "*")
    @@ ("Access-Control-Allow-Headers" :> "Content-Type")
    @@ ("Access-Control-Allow-Methods" :> "POST, OPTIONS")

\* Lines 219-231.
Response400(parseError) ==
  [statusCode |-> 400,
   headers |-> CorsHeaders,
   body |-> Str(StringifyClientError("Invalid JSON in request body",
                                     parseError))]

\* Response200 with the result serialised like the error bodies.
Response200Stringified(result) ==
  [statusCode |-> 200, headers |-> CorsHeaders,
   body |-> Str("{" \o Quote("testName") \o ":" \o Quote(result.f.testName.s)
                  \o "}")]

\* Lines 237-246.
Response200(result) ==
  [statusCode |-> 200, headers |-> CorsHeaders, body |-> result]

\* Response500 with the message of the error hidden from the caller.
Response500Masked(error, t) ==
  [statusCode |-> 500,
   headers |-> ("Content-Type" :> "application/json")
                 @@ ("Access-Control-Allow-Origin" :> "*"),
   body |-> Str(StringifyServerError("Failed to query knowledge base",
                                     "Internal error", toISOString(t)))]

\* Lines 247-260: handler's catch, at instant t.
Response500(error, t) ==
  [statusCode |-> 500,
   headers |-> ("Content-Type" :> "application/json")
                 @@ ("Access-Control-Allow-Origin" :> "*"),
   body |-> Str(StringifyServerError("Failed to query knowledge base",
                                     error.message, toISOString(t)))]

Init ==
  /\ pc = "idle"
  /\ event = Undefined
  /\ requestData = Undefined
  /\ frame = Undefined
  /\ payload = Undefined
  /\ apiResponse = Undefined
  /\ art = Undefined
  /\ uploadParams = Undefined
  /\ presign = Undefined
  /\ thrown = Undefined
  /\ log = <<>>
  /\ response = NoResponse
  /\ files = <<>>
  /\ s3 = <<>>
  /\ now = StartInstant
  /\ invocations = 0
  /\ issued = {}

\* Lines 198-201 and 247-260: the error passes through queryKnowledgeBase's
\* catch unchanged and handler's catch returns the 500 response, at
\* instant t.
Fail(error, t) ==
  /\ thrown' = error
  /\ response' = Response500(error, t)
  /\ pc' = "returned"

\* Lines 204-235 and 16-135: handler is invoked d milliseconds after the
\* previous step, parses the body, and queryKnowledgeBase destructures the
\* request and sends the RetrieveAndGenerateCommand.
Invoke(ev, d) ==
  /\ pc \in {"idle", "returned"}
  /\ invocations < MaxInvocations
  /\ now + d <= StartInstant + MaxTicks
  /\ invocations' = invocations + 1
  /\ now' = now + d
  /\ event' = ev
  /\ apiResponse' = Undefined
  /\ art' = Undefined
  /\ uploadParams' = Undefined
  /\ presign' = Undefined
  /\ UNCHANGED <<files, s3, issued>>
  /\ LET parsed == RequestData(ev)
     IN IF ~parsed.ok
        THEN /\ requestData' = EmptyObject
             /\ frame' = Undefined
             /\ payload' = Undefined
             /\ log' = <<>>
             /\ thrown' = Error("SyntaxError", parsed.msg, "JSON.parse")
             /\ response' = Response400(parsed.msg)
             /\ pc' = "returned"
        ELSE IF parsed.v.t \in {"null", "undefined"}
        THEN /\ requestData' = parsed.v
             /\ frame' = Undefined
             /\ payload' = Undefined
             /\ log' = <<>>
             /\ Fail(Error("TypeError",
                           "Cannot destructure property 'repository' of 'requestData' as it is "
                             \o JSString(parsed.v) \o ".",
                           "destructuring"), now + d)
        ELSE /\ requestData' = parsed.v
             /\ frame' = Frame(parsed.v)
             /\ payload' = Payload(Frame(parsed.v))
             /\ log' = <<"RetrieveAndGenerate">>
             /\ thrown' = Undefined
             /\ response' = NoResponse
             /\ pc' = "awaitGenerate"

\* Lines 133-168: the knowledge base answers; the text is written to /tmp,
\* read back and sent to S3.  writeFileSync throws when the directory of the
\* path does not exist, which is when the file name holds a "/".
GenerateReturn(answer) ==
  /\ pc = "awaitGenerate"
  /\ apiResponse' = answer
  /\ LET timestamp == Timestamp(now)
         fileName == FileName(frame.pr_number, timestamp)
         filePath == FilePath(fileName)
         s3Key == S3Key(frame.repository, fileName)
         generatedText == answer.output.text
     IN /\ art' = [generatedText |-> generatedText, timestamp |-> timestamp,
                   fileName |-> fileName, filePath |-> filePath,
                   s3Key |-> s3Key]
        /\ issued' = issued \cup {[timestamp |-> timestamp, s3Key |-> s3Key,
                                   filePath |-> filePath]}
        /\ IF Contains(fileName, "/")
           THEN /\ log' = log \o <<"writeFileSync">>
                /\ Fail(Error("Error",
                              "ENOENT: no such file or directory, open '"
                                \o filePath \o "'",
                              "writeFileSync"), now)
                /\ UNCHANGED <<files, uploadParams>>
           ELSE /\ files' = (filePath :> Utf8Encode(generatedText)) @@ files
                /\ uploadParams' = UploadParams(frame, apiResponse', timestamp,
                                                s3Key, files'[filePath])
                /\ log' = log \o <<"writeFileSync", "readFileSync", "PutObject">>
                /\ pc' = "awaitUpload"
                /\ UNCHANGED <<thrown, response>>
  /\ UNCHANGED <<event, requestData, frame, payload, presign, s3, now,
                 invocations>>

\* GenerateThrow with one retry of the command before giving up.
GenerateThrowRetry(message) ==
  /\ pc = "awaitGenerate"
  /\ IF Count("RetrieveAndGenerate") < 2
     THEN /\ log' = log \o <<"RetrieveAndGenerate">>
          /\ UNCHANGED <<pc, thrown, response>>
     ELSE /\ Fail(Error("Error", message, "RetrieveAndGenerate"), now)
          /\ UNCHANGED log
  /\ UNCHANGED <<event, requestData, frame, payload, apiResponse, art,
                 uploadParams, presign, files, s3, now, invocations, issued>>

\* Lines 133-135, 198-201: client.send rejects.
GenerateThrow(message) ==
  /\ pc = "awaitGenerate"
  /\ Fail(Error("Error", message, "RetrieveAndGenerate"), now)
  /\ UNCHANGED <<event, requestData, frame, payload, apiResponse, art,
                 uploadParams, presign, log, files, s3, now, invocations,
                 issued>>

\* Lines 168-178: the object is stored and getSignedUrl is called.
UploadReturn ==
  /\ pc = "awaitUpload"
  /\ s3' = (<<uploadParams.Bucket, uploadParams.Key>> :> uploadParams) @@ s3
  /\ presign' = PresignRequest(art.s3Key)
  /\ log' = log \o <<"getSignedUrl">>
  /\ pc' = "awaitPresign"
  /\ UNCHANGED <<event, requestData, frame, payload, apiResponse, art,
                 uploadParams, thrown, response, files, now, invocations,
                 issued>>

\* Lines 168, 198-201: s3Client.send rejects.
UploadThrow(message) ==
  /\ pc = "awaitUpload"
  /\ Fail(Error("Error", message, "PutObject"), now)
  /\ UNCHANGED <<event, requestData, frame, payload, apiResponse, art,
                 uploadParams, presign, log, files, s3, now, invocations,
                 issued>>

\* PresignReturn without the clean-up of the local file.
PresignReturnNoUnlink ==
  /\ pc = "awaitPresign"
  /\ response' = Response200(Result(frame, PresignedUrl(presign)))
  /\ pc' = "returned"
  /\ UNCHANGED <<event, requestData, frame, payload, apiResponse, art,
                 uploadParams, presign, thrown, log, files, s3, now,
                 invocations, issued>>

\* Lines 171-197 and 235-246: the link is returned, the local file is
\* deleted and handler returns the result.
PresignReturn ==
  /\ pc = "awaitPresign"
  /\ files' = [p \in DOMAIN files \ {art.filePath} |-> files[p]]
  /\ log' = log \o <<"unlinkSync">>
  /\ response' = Response200(Result(frame, PresignedUrl(presign)))
  /\ pc' = "returned"
  /\ UNCHANGED <<event, requestData, frame, payload, apiResponse, art,
                 uploadParams, presign, thrown, s3, now, invocations, issued>>

\* Lines 171-178, 198-201: getSignedUrl rejects.
PresignThrow(message) ==
  /\ pc = "awaitPresign"
  /\ Fail(Error("Error", message, "getSignedUrl"), now)
  /\ UNCHANGED <<event, requestData, frame, payload, apiResponse, art,
                 uploadParams, presign, log, files, s3, now, invocations,
                 issued>>

Next ==
  \/ \E i \in 1..Len(Events), d \in 0..1 : Invoke(Events[i], d)
  \/ \E i \in 1..Len(Answers) : GenerateReturn(Answers[i])
  \/ \E message \in GenerateErrors : GenerateThrow(message)
  \/ UploadReturn
  \/ \E message \in UploadErrors : UploadThrow(message)
  \/ PresignReturn
  \/ \E message \in PresignErrors : PresignThrow(message)

Spec == Init /\ [][Next]_vars

\* ------------------------------------------------------------------------
\* Properties
\* ------------------------------------------------------------------------
Body == Get(event, "body")

\* The calls that leave the process.
RemoteCalls == {"RetrieveAndGenerate", "PutObject", "getSignedUrl"}

\* C1: an event whose body is a non-empty string that is not valid JSON is
\* answered with status 400, a JSON body with an error field and with
\* details equal to the parse error message, and the invocation issues no
\* remote call and writes no local file.
C1_InvalidJsonIs400 ==
  (invocations > 0 /\ Body.t = "string" /\ Body.s # "" /\ ~JSONParse(Body.s).ok)
    => /\ pc = "returned"
       /\ response.statusCode = 400
       /\ response.body.t = "string"
       /\ LET b == JSONParse(response.body.s)
          IN /\ b.ok
             /\ b.v.t = "object"
             /\ "error" \in DOMAIN b.v.f
             /\ Get(b.v, "details") = Str(JSONParse(Body.s).msg)
       /\ log = <<>>
       /\ art = Undefined
       /\ uploadParams = Undefined
       /\ presign = Undefined

\* C1's case: the body {"a""} was rejected with 400.
C1_Witness ==
  /\ pc = "returned"
  /\ Body = Str("{\"a\"\"}")
  /\ response.statusCode = 400

\* C2: when the generation call throws, or the generation call succeeds and
\* the upload throws, handler returns a response with status 500 whose JSON
\* body has error, details equal to the message of the thrown error, and a
\* timestamp; the invocation's response is not a 200.
C2_UpstreamFailureIs500 ==
  (thrown.t = "error" /\ thrown.from \in {"RetrieveAndGenerate", "PutObject"})
    => /\ pc = "returned"
       /\ response.statusCode = 500
       /\ response.body.t = "string"
       /\ LET b == JSONParse(response.body.s)
          IN /\ b.ok
             /\ b.v.t = "object"
             /\ "error" \in DOMAIN b.v.f
             /\ Get(b.v, "details") = Str(thrown.message)
             /\ Get(b.v, "timestamp") = Str(toISOString(now))
       /\ (thrown.from = "PutObject" => apiResponse # Undefined)

\* C2's case: the generation call returned and the upload threw.
C2_Witness ==
  /\ pc = "returned"
  /\ thrown.t = "error"
  /\ thrown.from = "PutObject"
  /\ apiResponse # Undefined
  /\ response.statusCode = 500

\* C3: the generation call and the upload are each issued at most once per
\* invocation and in this order: the local write and the upload come after
\* the generation call has returned, and when the generation call throws
\* nothing is written and neither upload nor presign is attempted.
C3_SequentialNoRetry ==
  /\ Count("RetrieveAndGenerate") <= 1
  /\ Count("PutObject") <= 1
  /\ \A j \in DOMAIN log :
       log[j] \in {"writeFileSync", "readFileSync", "PutObject", "getSignedUrl"}
         => /\ apiResponse # Undefined
            /\ \E i \in 1..(j - 1) : log[i] = "RetrieveAndGenerate"
  /\ \A j \in DOMAIN log :
       log[j] = "PutObject" => \E i \in 1..(j - 1) : log[i] = "writeFileSync"
  /\ (thrown.t = "error" /\ thrown.from = "RetrieveAndGenerate")
       => /\ log = <<"RetrieveAndGenerate">>
          /\ apiResponse = Undefined
          /\ art = Undefined
          /\ uploadParams = Undefined
          /\ presign = Undefined

\* C3's case: the generation call threw in an invocation.
C3_Witness ==
  /\ pc = "returned"
  /\ thrown.t = "error"
  /\ thrown.from = "RetrieveAndGenerate"

\* C4: in every invocation that wrote the temporary file, the file no longer
\* exists when handler returns, whatever the outcome of upload and presign.
C4_TempFileDeleted ==
  (pc = "returned" /\ Issued("readFileSync")) => art.filePath \notin DOMAIN files

\* C5: the status is 400 exactly when the body is a string that fails JSON
\* parsing, and 500 only when the generation, upload or presign call raised.
C5_OnlyUpstream500 ==
  pc = "returned"
    => /\ response.statusCode \in {200, 400, 500}
       /\ response.statusCode = 400
            <=> (Body.t = "string" /\ Body.s # "" /\ ~JSONParse(Body.s).ok)
       /\ response.statusCode = 500
            => thrown.t = "error" /\ thrown.from \in RemoteCalls

\* C6: an event without body (absent, null or empty) gives the empty request
\* record and the default tuning values, reaches the generation call, is
\* never answered 400, is answered 500 only after a remote call failed, and
\* is answered 200 when generation, upload and presign succeed.
C6_NoBodyUsesDefaults ==
  (invocations > 0 /\ (Body.t \in {"undefined", "null"} \/ Body = Str("")))
    => /\ requestData = EmptyObject
       /\ frame.knowledgeBaseId = Str(KNOWLEDGE_BASE_ID)
       /\ frame.modelId = Str(MODEL_ID)
       /\ frame.numberOfResults = Num("5")
       /\ frame.searchType = Str("HYBRID")
       /\ frame.maxTokens = Num("1000")
       /\ frame.temperature = Num("0.7")
       /\ frame.topP = Num("0.9")
       /\ Len(log) >= 1
       /\ log[1] = "RetrieveAndGenerate"
       /\ LET kb == payload.retrieveAndGenerateConfiguration.knowledgeBaseConfiguration
          IN /\ kb.knowledgeBaseId = Str(KNOWLEDGE_BASE_ID)
             /\ kb.modelArn = Str(MODEL_ID)
             /\ kb.retrievalConfiguration.vectorSearchConfiguration
                  = [numberOfResults |-> Num("5"), overrideSearchType |-> Str("HYBRID")]
             /\ kb.generationConfiguration.inferenceConfig.textInferenceConfig
                  = [maxTokens |-> Num("1000"), temperature |-> Num("0.7"),
                     topP |-> Num("0.9")]
       /\ response.statusCode # 400
       /\ response.statusCode = 500
            => thrown.t = "error" /\ thrown.from \in RemoteCalls
       /\ (pc = "returned" /\ thrown = Undefined) => response.statusCode = 200

\* C6's case: an invocation with a null body ended with 200.
C6_Witness ==
  /\ pc = "returned"
  /\ event = Obj([body |-> Null])
  /\ response.statusCode = 200

\* C7: on success testInstructionsUrl is a pre-signed link for reading the
\* object, valid for 24 hours, for the bucket and key of the upload.
C7_RetrievalLink ==
  response.statusCode = 200
    => /\ presign.command = "GetObjectCommand"
       /\ presign.expiresIn = 24 * 60 * 60
       /\ presign.Bucket = uploadParams.Bucket
       /\ presign.Key = uploadParams.Key
       /\ Get(response.body, "testInstructionsUrl") = Str(PresignedUrl(presign))

\* C8: the key is {repository}/testcases-{pr_number}-{timestamp}.txt and the
\* path /tmp/testcases-{pr_number}-{timestamp}.txt, the timestamp being the
\* 24-character ISO time with - for : and . ; two invocations with different
\* timestamps have different keys and different paths.
C8_NamesFromTimestamp ==
  /\ art # Undefined
       => /\ art.timestamp = Timestamp(now)
          /\ Len(art.timestamp) = 24
          /\ ~Contains(art.timestamp, ":")
          /\ ~Contains(art.timestamp, ".")
          /\ art.s3Key = JSString(Get(requestData, "repository")) \o "/testcases-"
                           \o JSString(Get(requestData, "pr_number")) \o "-"
                           \o art.timestamp \o ".txt"
          /\ art.filePath = "/tmp/testcases-"
                              \o JSString(Get(requestData, "pr_number")) \o "-"
                              \o art.timestamp \o ".txt"
  /\ \A a, b \in issued :
       a.timestamp # b.timestamp
         => a.s3Key # b.s3Key /\ a.filePath # b.filePath

\* C8's case: two invocations of the same request at different instants.
C8_Witness ==
  \E a, b \in issued :
    /\ a.timestamp = "1970-01-01T23-59-59-999Z"
    /\ b.timestamp = "1970-01-02T00-00-00-000Z"
    /\ a.s3Key = "o/r/testcases-7-" \o a.timestamp \o ".txt"
    /\ b.s3Key = "o/r/testcases-7-" \o b.timestamp \o ".txt"

\* C9: when generation, upload and presign succeed the response has status
\* 200, the CORS headers, and as body the result object itself: the fixed
\* appPackage, testName from pr_number, the pre-signed link, priority high,
\* timeout 180 and the metadata of the request with the fixed jiraTicketId.
C9_SuccessResponse ==
  (pc = "returned" /\ Issued("getSignedUrl") /\ thrown = Undefined)
    => /\ response.statusCode = 200
       /\ response.headers["Access-Control-Allow-Origin"] = "*"
       /\ "Access-Control-Allow-Headers" \in DOMAIN response.headers
       /\ "Access-Control-Allow-Methods" \in DOMAIN response.headers
       /\ response.body.t = "object"
       /\ LET r == response.body.f
          IN /\ r.appPackage = Str("com.qazi9amaan.rntodoapp")
             /\ r.testName
                  = Str("Test for PR " \o JSString(Get(requestData, "pr_number")))
             /\ r.testInstructionsUrl = Str(PresignedUrl(presign))
             /\ r.priority = Str("high")
             /\ r.timeout = Num("180")
             /\ r.metadata.t = "object"
             /\ r.metadata.f.jiraTicketId = Str("PROJ-1234")
             /\ r.metadata.f.commitSha = Get(requestData, "commitSha")
             /\ r.metadata.f.repositoryUrl = Get(requestData, "repositoryUrl")
             /\ r.metadata.f.prNumber = Get(requestData, "pr_number")
             /\ r.metadata.f.branch = Get(requestData, "branch")

\* C9's case: the full request was served.
C9_Witness ==
  /\ pc = "returned"
  /\ Body = Str(FullRequestText)
  /\ thrown = Undefined
  /\ Issued("unlinkSync")
  /\ Get(Get(response.body, "metadata"), "commitSha") = Str("c1")

====
